---- MODULE Spec2Model ----
(***************************************************************************)
(* A model of neurolab's data interface: the data model and its            *)
(* serialization (data_interface/models.py), the filesystem collector      *)
(* (data_interface/collectors.py), collect_source                          *)
(* (data_interface/orchestrator.py), the manifest store                    *)
(* (storage/manifest_store.py) and the manifest diff of the CLI            *)
(* (interfaces/cli.py).                                                    *)
(*                                                                         *)
(* Conventions.  A Python string that is compared, sorted or matched is a  *)
(* sequence of one-character strings.  An optional value (T | None) is a   *)
(* sequence of length at most one: None is <<>>, a present value x is      *)
(* <<x>>.  Timestamps are integers (seconds).                              *)
(***************************************************************************)
EXTENDS Integers, Sequences, FiniteSets, TLC

VARIABLES
    stored,        \* diff: the stored manifests the command can name
    m1, m2,        \* diff: the two manifests loaded for comparison (optional)
    diffOut,       \* diff: <<>> before the comparison, <<result>> after it
    dpc,           \* diff: "idle" | "ready" | "done"
    obj,           \* serialization: the Manifest being saved (optional)
    doc,           \* serialization: the document to_dict produced (optional)
    loaded,        \* serialization: the outcome of from_dict on doc (optional)
    spc,           \* serialization: "idle" | "ready" | "saved" | "loaded"
    fs,            \* collect: what each path of the tree is during the run
    srcSpec,       \* collect: the DataSourceSpec passed to collect (optional)
    listing,       \* collect: the order in which the directory walk met the entries
    outcome,       \* collect: what collect returned or raised (optional)
    uuids,         \* collect: how many identifiers uuid4() has handed out
    cpc,           \* collect: "idle" | "new" | "ready" | "done" | "rejected"
    kwarg,         \* collect: the compute_hash keyword of a collect_source call;
                   \*   None when collect was called on the collector itself
    earlier,       \* collect: the call before the latest one (optional)
    built,         \* collect: how srcSpec was constructed, and the outcome (optional)
    base_dir,      \* store: the files of the store directory, name -> text
    calls          \* store: the calls made so far, with what each returned

diffVars == <<stored, m1, m2, diffOut, dpc>>
serVars == <<obj, doc, loaded, spc>>
colVars == <<fs, srcSpec, listing, outcome, uuids, cpc, kwarg, earlier, built>>
storeVars == <<base_dir, calls>>
vars == <<diffVars, serVars, colVars, storeVars>>

---------------------------------------------------------------------------
(* Optional values *)

None == <<>>
Some(x) == <<x>>
IsNone(o) == o = <<>>
Get(o) == o[1]

---------------------------------------------------------------------------
(* Python str: code points, comparison, concatenation *)

\* ord() of the characters the model uses
Ord(c) ==
    CASE c = "*" -> 42
      [] c = "." -> 46
      [] c = "/" -> 47
      [] c = "a" -> 97
      [] c = "b" -> 98
      [] c = "c" -> 99
      [] c = "i" -> 105
      [] c = "l" -> 108
      [] c = "n" -> 110
      [] c = "r" -> 114
      [] c = "s" -> 115
      [] c = "t" -> 116
      [] c = "u" -> 117
      [] c = "x" -> 120

\* str.__lt__: lexicographic order on code points
RECURSIVE StrLess(_, _)
StrLess(s, t) ==
    IF t = <<>> THEN FALSE
    ELSE IF s = <<>> THEN TRUE
    ELSE IF Ord(Head(s)) # Ord(Head(t)) THEN Ord(Head(s)) < Ord(Head(t))
    ELSE StrLess(Tail(s), Tail(t))

StrLeq(s, t) == s = t \/ StrLess(s, t)

\* sorted(S) for a set S of strings: the ascending list of its members
RECURSIVE Sorted(_)
Sorted(S) ==
    IF S = {} THEN <<>>
    ELSE LET m == CHOOSE x \in S : \A y \in S : StrLeq(x, y)
         IN  <<m>> \o Sorted(S \ {m})

Range(f) == {f[i] : i \in DOMAIN f}

---------------------------------------------------------------------------
(* The names the model's file trees are built from *)

A_TXT == <<"a", ".", "t", "x", "t">>
B_BIN == <<"b", ".", "b", "i", "n">>
SUB == <<"s", "u", "b">>
C_TXT == <<"c", ".", "t", "x", "t">>
SLASH == <<"/">>

\* the longest artifact list of a stored manifest
MaxArtifacts == 2

\* the root a source uri names
ROOT == <<"/", "r">>

\* relative paths as str(Path) renders them
REL_A == A_TXT
REL_B == B_BIN
REL_C == SUB \o SLASH \o C_TXT

---------------------------------------------------------------------------
(* Artifact and Manifest values (models.py) *)

\* A call returns a value or raises: [error |-> "none", value |-> v] or
\* [error |-> <exception type>, value |-> <<>>]
Returned(v) == [error |-> "none", value |-> v]
Raised(e) == [error |-> e, value |-> <<>>]

\* A warning text: what failed, and the path the message names
Warning(what, path) == [what |-> what, path |-> path]

\* An aware datetime: seconds since the epoch and the UTC offset; a naive one
\* has no offset.  datetime.fromtimestamp(t, tz=UTC) and utc_now() are aware.
DateTime(t, off) == [ts |-> t, tzoffset |-> off]
UtcDateTime(t) == DateTime(t, Some(0))

\* datetime.isoformat(): the text carries the time and, when aware, the offset
IsoFormat(dt) == <<"iso", dt.ts, dt.tzoffset>>
\* datetime.fromisoformat(): tzinfo is None when the text carries no offset
FromIsoFormat(text) == DateTime(text[2], text[3])

\* d.get(key, default)
DictGet(d, key, default) == IF key \in DOMAIN d THEN d[key] ELSE default

\* DataSourceSpec(...): a frozen dataclass, no validation in the constructor
DataSourceSpec(uri, source_type, include_globs, exclude_globs, compute_hash, recursive, hints) ==
    [uri |-> uri, source_type |-> source_type, include_globs |-> include_globs,
     exclude_globs |-> exclude_globs, compute_hash |-> compute_hash,
     recursive |-> recursive, hints |-> hints]

\* DataSourceSpec.to_dict
SpecToDict(self) ==
    [uri |-> self.uri, source_type |-> self.source_type,
     include_globs |-> self.include_globs, exclude_globs |-> self.exclude_globs,
     recursive |-> self.recursive, hints |-> self.hints]

\* from_dict takes any source_type
SpecFromDictAnySourceType(d) ==
    IF "uri" \notin DOMAIN d THEN Raised("ValueError")
    ELSE Returned(DataSourceSpec(d.uri, DictGet(d, "source_type", "filesystem"),
                      DictGet(d, "include_globs", None), DictGet(d, "exclude_globs", None),
                      TRUE, DictGet(d, "recursive", TRUE), DictGet(d, "hints", {})))

\* DataSourceSpec.from_dict: compute_hash is not read, the dataclass default applies
SpecFromDict(d) ==
    IF "uri" \notin DOMAIN d THEN Raised("ValueError")
    ELSE IF DictGet(d, "source_type", "filesystem") # "filesystem" THEN Raised("ValueError")
    ELSE Returned(DataSourceSpec(d.uri, DictGet(d, "source_type", "filesystem"),
                      DictGet(d, "include_globs", None), DictGet(d, "exclude_globs", None),
                      TRUE, DictGet(d, "recursive", TRUE), DictGet(d, "hints", {})))

\* Artifact(...): mtime is an optional datetime
ArtifactOfType(type, id, uri, rel, abs, size, mtime, hash, media) ==
    [artifact_id |-> id, source_uri |-> uri, artifact_type |-> type,
     relative_path |-> rel, absolute_path |-> abs, size_bytes |-> size,
     mtime |-> mtime, content_hash |-> hash, media_type |-> media,
     tags |-> {}]

\* the artifacts collect builds: artifact_type="file"
Artifact(id, uri, rel, abs, size, mtime, hash, media) ==
    ArtifactOfType("file", id, uri, rel, abs, size, mtime, hash, media)

\* Artifact.to_dict
ArtifactToDict(self) ==
    [artifact_id |-> self.artifact_id, source_uri |-> self.source_uri,
     artifact_type |-> self.artifact_type, relative_path |-> self.relative_path,
     absolute_path |-> self.absolute_path, size_bytes |-> self.size_bytes,
     mtime |-> IF ~IsNone(self.mtime) THEN Some(IsoFormat(Get(self.mtime))) ELSE None,
     content_hash |-> self.content_hash, media_type |-> self.media_type,
     tags |-> self.tags]

\* Artifact.from_dict
ArtifactFromDict(d) ==
    IF "artifact_id" \notin DOMAIN d THEN Raised("ValueError")
    ELSE IF "source_uri" \notin DOMAIN d THEN Raised("ValueError")
    ELSE IF "artifact_type" \notin DOMAIN d THEN Raised("ValueError")
    ELSE IF d.artifact_type \notin {"file", "db_table"} THEN Raised("ValueError")
    ELSE LET mtime_iso == DictGet(d, "mtime", None)
             mtime == IF ~IsNone(mtime_iso) THEN Some(FromIsoFormat(Get(mtime_iso))) ELSE None
         IN  IF ~IsNone(mtime) /\ IsNone(Get(mtime).tzoffset) THEN Raised("ValueError")
             ELSE Returned(ArtifactOfType(d.artifact_type, d.artifact_id, d.source_uri,
                               DictGet(d, "relative_path", None),
                               DictGet(d, "absolute_path", None),
                               DictGet(d, "size_bytes", None), mtime,
                               DictGet(d, "content_hash", None),
                               DictGet(d, "media_type", None)))

\* Manifest(...)
Manifest(manifest_id, source, created_at, artifacts, warnings) ==
    [manifest_id |-> manifest_id, source |-> source, created_at |-> created_at,
     artifacts |-> artifacts, warnings |-> warnings]

\* Manifest.to_dict
ManifestToDict(self) ==
    [manifest_id |-> self.manifest_id, source |-> SpecToDict(self.source),
     created_at |-> IsoFormat(self.created_at),
     artifacts |-> [i \in DOMAIN self.artifacts |-> ArtifactToDict(self.artifacts[i])],
     warnings |-> self.warnings]

\* Manifest.from_dict
ManifestFromDict(d) ==
    IF "manifest_id" \notin DOMAIN d THEN Raised("ValueError")
    ELSE IF "source" \notin DOMAIN d THEN Raised("ValueError")
    ELSE IF "created_at" \notin DOMAIN d THEN Raised("ValueError")
    ELSE IF "artifacts" \notin DOMAIN d THEN Raised("ValueError")
    ELSE LET source == SpecFromDict(d.source)
             created_at == FromIsoFormat(d.created_at)
             artifacts == [i \in DOMAIN d.artifacts |-> ArtifactFromDict(d.artifacts[i])]
         IN  IF source.error # "none" THEN source
             ELSE IF IsNone(created_at.tzoffset) THEN Raised("ValueError")
             ELSE IF \E i \in DOMAIN artifacts : artifacts[i].error # "none"
                  THEN Raised("ValueError")
             ELSE Returned(Manifest(d.manifest_id, source.value, created_at,
                               [i \in DOMAIN artifacts |-> artifacts[i].value],
                               DictGet(d, "warnings", <<>>)))

---------------------------------------------------------------------------
(* The glob patterns of the model: "*.txt", "*.bin", "**/*.txt", "**/*.bin", "sub/*" *)

PAT_TXT == <<"*", ".", "t", "x", "t">>
PAT_BIN == <<"*", ".", "b", "i", "n">>
PAT_DEEP_TXT == <<"*", "*", "/">> \o PAT_TXT
PAT_DEEP_BIN == <<"*", "*", "/">> \o PAT_BIN
PAT_SUB == SUB \o <<"/", "*">>

---------------------------------------------------------------------------
(* Glob filters (collectors.py, over pathlib and fnmatch) *)

\* fnmatch.fnmatchcase(name, pat) for patterns of literal characters, ? and *
RECURSIVE FnMatch(_, _)
FnMatch(name, pat) ==
    IF pat = <<>> THEN name = <<>>
    ELSE IF Head(pat) = "*"
         THEN FnMatch(name, Tail(pat)) \/ (name # <<>> /\ FnMatch(Tail(name), pat))
    ELSE IF Head(pat) = "?"
         THEN name # <<>> /\ FnMatch(Tail(name), Tail(pat))
    ELSE name # <<>> /\ Head(name) = Head(pat) /\ FnMatch(Tail(name), Tail(pat))

\* PurePath(text).parts of a relative path text: the text split at "/"
RECURSIVE SplitParts(_, _)
SplitParts(text, current) ==
    IF text = <<>> THEN (IF current = <<>> THEN <<>> ELSE <<current>>)
    ELSE IF Head(text) = "/"
         THEN (IF current = <<>> THEN <<>> ELSE <<current>>) \o SplitParts(Tail(text), <<>>)
    ELSE SplitParts(Tail(text), Append(current, Head(text)))

\* "/".join(parts)
RECURSIVE JoinParts(_)
JoinParts(parts) ==
    IF parts = <<>> THEN <<>>
    ELSE IF Len(parts) = 1 THEN parts[1]
    ELSE parts[1] \o SLASH \o JoinParts(Tail(parts))

\* Path.match(pat) for a relative pattern: the pattern's parts are matched
\* against the last parts of the path, "**" matching one part like "*"
PathMatch(parts, pat) ==
    LET pat_parts == SplitParts(pat, <<>>)
    IN  /\ Len(pat_parts) <= Len(parts)
        /\ \A k \in 1..Len(pat_parts) :
              FnMatch(parts[Len(parts) - k + 1], pat_parts[Len(pat_parts) - k + 1])

\* _matches_any(path, patterns)
MatchesAny(parts, patterns) ==
    IF IsNone(patterns) \/ Get(patterns) = <<>> THEN TRUE
    ELSE \E i \in DOMAIN Get(patterns) : PathMatch(parts, Get(patterns)[i])

\* _excluded(path, patterns)
Excluded(parts, patterns) ==
    IF IsNone(patterns) \/ Get(patterns) = <<>> THEN FALSE
    ELSE \E i \in DOMAIN Get(patterns) : PathMatch(parts, Get(patterns)[i])

\* the include list is consulted first and wins
PassesFilterIncludeFirst(parts, source) ==
    \/ (~IsNone(source.include_globs) /\ Get(source.include_globs) # <<>>
            /\ MatchesAny(parts, source.include_globs))
    \/ ~Excluded(parts, source.exclude_globs)

\* try_add_file, lines 133-136: TRUE when the file goes on to be recorded
PassesFilter(parts, source) ==
    /\ ~Excluded(parts, source.exclude_globs)
    /\ MatchesAny(parts, source.include_globs)

---------------------------------------------------------------------------
(* The file tree collect reads *)

\* Paths are named by their parts below "/r"; <<>> is "/r" itself.
ENTRY_ROOT == <<>>
ENTRY_A == <<A_TXT>>
ENTRY_B == <<B_BIN>>
ENTRY_SUB == <<SUB>>
ENTRY_C == <<SUB, C_TXT>>
Entries == {ENTRY_A, ENTRY_B, ENTRY_SUB, ENTRY_C}

\* What a path is while collect runs:
\*   "absent"  nothing there
\*   "file"    a regular file: is_file() is true, stat() and reading succeed
\*   "nostat"  is_file() is true, the later stat() raises
\*   "noread"  is_file() is true, stat() succeeds, reading the content raises
\*   "denied"  is_file() raises (PermissionError)
\*   "gone"    listed by the walk, then is_file() is false (deleted meanwhile,
\*             or a broken symlink)
\*   "dir"     a directory the walk can list
\*   "sealed"  a directory the walk cannot list: rglob skips its content
FileLike == {"file", "nostat", "noread"}

\* Path(parts).parts of the absolute path
AbsParts(entry) == <<SLASH, <<"r">>>> \o entry

\* str(path) of an absolute path
AbsText(entry) == ROOT \o (IF entry = <<>> THEN <<>> ELSE SLASH \o JoinParts(entry))

\* the entry a source uri names
ROOT_FILE == ROOT \o SLASH \o A_TXT
EntryOfUri(uri) == IF uri = ROOT THEN ENTRY_ROOT ELSE ENTRY_A

\* st_size, st_mtime and the bytes of each file
SizeOf(entry) == IF entry = ENTRY_A THEN 3 ELSE IF entry = ENTRY_B THEN 2 ELSE 4
MtimeOf(entry) == IF entry = ENTRY_A THEN 11 ELSE IF entry = ENTRY_B THEN 12 ELSE 13
ContentOf(entry) == IF entry = ENTRY_A THEN "foo" ELSE IF entry = ENTRY_B THEN "bin" ELSE "baz"

\* hash_file_sha256: the hex digest, a function of the bytes alone
HashFileSha256(content) ==
    CASE content = "foo" -> "2c26b4"
      [] content = "bin" -> "b413f4"
      [] content = "baz" -> "baa5a0"

\* path.suffix
Suffix(name) ==
    LET dots == {i \in DOMAIN name : name[i] = "."}
        last == IF dots = {} THEN 0 ELSE CHOOSE i \in dots : \A j \in dots : j <= i
    IN  IF 1 < last /\ last < Len(name) THEN SubSeq(name, last, Len(name)) ELSE <<>>

\* _infer_media_type over _MEDIA_BY_EXT (the names of the model are lower case)
InferMediaType(entry) ==
    LET ext == Suffix(entry[Len(entry)])
    IN  CASE ext = <<".", "c", "s", "v">> -> Some("text/csv")
          [] ext = <<".", "j", "s", "o", "n">> -> Some("application/json")
          [] ext = <<".", "t", "x", "t">> -> Some("text/plain")
          [] ext = <<".", "m", "d">> -> Some("text/markdown")
          [] ext = <<".", "z", "i", "p">> -> Some("application/zip")
          [] OTHER -> None

\* the walk descends whatever the recursive flag says
YieldedIgnoringRecursive(tree, recursive) ==
    {e \in Entries :
        /\ tree[e] # "absent"
        /\ \/ Len(e) = 1
           \/ tree[SubSeq(e, 1, Len(e) - 1)] = "dir"}

\* root.rglob("*") / root.glob("*"): the entries the walk yields
Yielded(tree, recursive) ==
    {e \in Entries :
        /\ tree[e] # "absent"
        /\ \/ Len(e) = 1
           \/ recursive /\ tree[SubSeq(e, 1, Len(e) - 1)] = "dir"}

OrdersOf(S) == {o \in [1..Cardinality(S) -> S] : \A e \in S : \E i \in DOMAIN o : o[i] = e}

\* the orders a walk can yield them in: a directory's entries in any order,
\* the entries of "/r" before those of "/r/sub"
Listings(tree, recursive) ==
    LET all == Yielded(tree, recursive)
        top == {e \in all : Len(e) = 1}
    IN  {o1 \o o2 : o1 \in OrdersOf(top), o2 \in OrdersOf(all \ top)}

---------------------------------------------------------------------------
(* FilesystemCollector.collect (collectors.py) *)

\* the sort key of collect: a.relative_path or ""
SortKey(a) == IF IsNone(a.relative_path) THEN <<>> ELSE Get(a.relative_path)

IsSortedByPath(arts) ==
    \A i, j \in DOMAIN arts : i < j => StrLeq(SortKey(arts[i]), SortKey(arts[j]))

\* artifacts.sort(key=lambda a: a.relative_path or ""): a stable sort
RECURSIVE Insert(_, _)
Insert(sorted, a) ==
    IF sorted = <<>> THEN <<a>>
    ELSE IF StrLess(SortKey(a), SortKey(Head(sorted))) THEN <<a>> \o sorted
    ELSE <<Head(sorted)>> \o Insert(Tail(sorted), a)

\* the artifacts stay in the order the walk found them
SortArtifactsKeepingOrder(arts) == arts

RECURSIVE SortArtifacts(_)
SortArtifacts(arts) ==
    IF arts = <<>> THEN <<>>
    ELSE Insert(SortArtifacts(SubSeq(arts, 1, Len(arts) - 1)), arts[Len(arts)])

\* the state of one run: artifacts, warnings, and the next unused identifier
Run(artifacts, warnings, next) == [artifacts |-> artifacts, warnings |-> warnings, next |-> next]

\* a failed stat() keeps the file, without size and mtime checks
TryAddFileKeepingUnstatted(run, src, entry, in_dir, status) ==
    IF ~PassesFilter(AbsParts(entry), src) THEN run
    ELSE LET hashed == src.compute_hash /\ status # "noread"
             artifact ==
                 Artifact(run.next, src.uri,
                          IF in_dir THEN Some(JoinParts(entry)) ELSE None,
                          Some(AbsText(entry)), SizeOf(entry),
                          Some(UtcDateTime(MtimeOf(entry))),
                          IF hashed THEN Some(HashFileSha256(ContentOf(entry))) ELSE None,
                          InferMediaType(AbsParts(entry)))
         IN  Run(Append(run.artifacts, artifact),
                 IF src.compute_hash /\ status = "noread"
                 THEN Append(run.warnings, Warning("hash failed", AbsText(entry)))
                 ELSE run.warnings,
                 run.next + 1)

\* a failed hash skips the file like a failed stat()
TryAddFileSkippingUnhashed(run, src, entry, in_dir, status) ==
    IF ~PassesFilter(AbsParts(entry), src) THEN run
    ELSE IF status = "nostat"
    THEN Run(run.artifacts, Append(run.warnings, Warning("stat failed", AbsText(entry))), run.next)
    ELSE IF src.compute_hash /\ status = "noread"
    THEN Run(run.artifacts, Append(run.warnings, Warning("hash failed", AbsText(entry))), run.next)
    ELSE Run(Append(run.artifacts,
                 Artifact(run.next, src.uri,
                          IF in_dir THEN Some(JoinParts(entry)) ELSE None,
                          Some(AbsText(entry)), SizeOf(entry),
                          Some(UtcDateTime(MtimeOf(entry))),
                          IF src.compute_hash THEN Some(HashFileSha256(ContentOf(entry))) ELSE None,
                          InferMediaType(AbsParts(entry)))),
             run.warnings, run.next + 1)

\* the digest depends on the identifier the artifact gets
TryAddFileSaltedHash(run, src, entry, in_dir, status) ==
    IF ~PassesFilter(AbsParts(entry), src) THEN run
    ELSE IF status = "nostat"
    THEN Run(run.artifacts, Append(run.warnings, Warning("stat failed", AbsText(entry))), run.next)
    ELSE LET hashed == src.compute_hash /\ status # "noread"
             artifact ==
                 Artifact(run.next, src.uri,
                          IF in_dir THEN Some(JoinParts(entry)) ELSE None,
                          Some(AbsText(entry)), SizeOf(entry),
                          Some(UtcDateTime(MtimeOf(entry))),
                          IF hashed
                          THEN Some(IF run.next = 0 THEN HashFileSha256(ContentOf(entry))
                                    ELSE "salted")
                          ELSE None,
                          InferMediaType(AbsParts(entry)))
         IN  Run(Append(run.artifacts, artifact),
                 IF src.compute_hash /\ status = "noread"
                 THEN Append(run.warnings, Warning("hash failed", AbsText(entry)))
                 ELSE run.warnings,
                 run.next + 1)

\* try_add_file(p, base_root), for a path is_file() accepted; in_dir is
\* base_root is not None
TryAddFile(run, src, entry, in_dir, status) ==
    IF ~PassesFilter(AbsParts(entry), src) THEN run
    ELSE IF status = "nostat"
    THEN Run(run.artifacts, Append(run.warnings, Warning("stat failed", AbsText(entry))), run.next)
    ELSE LET hashed == src.compute_hash /\ status # "noread"
             artifact ==
                 Artifact(run.next, src.uri,
                          IF in_dir THEN Some(JoinParts(entry)) ELSE None,
                          Some(AbsText(entry)), SizeOf(entry),
                          Some(UtcDateTime(MtimeOf(entry))),
                          IF hashed THEN Some(HashFileSha256(ContentOf(entry))) ELSE None,
                          InferMediaType(AbsParts(entry)))
         IN  Run(Append(run.artifacts, artifact),
                 IF src.compute_hash /\ status = "noread"
                 THEN Append(run.warnings, Warning("hash failed", AbsText(entry)))
                 ELSE run.warnings,
                 run.next + 1)

\* the walk stops at the first entry it cannot inspect
RECURSIVE WalkStoppingAtError(_, _, _, _)
WalkStoppingAtError(run, src, tree, order) ==
    IF order = <<>> THEN run
    ELSE LET p == Head(order)
             status == tree[p]
         IN  IF status = "denied"
             THEN Run(run.artifacts,
                      Append(run.warnings, Warning("failed to inspect path", AbsText(p))),
                      run.next)
             ELSE WalkStoppingAtError(
                      IF status \in FileLike THEN TryAddFile(run, src, p, TRUE, status) ELSE run,
                      src, tree, Tail(order))

\* the loop of lines 195-201 over the entries in the order the walk yields them
RECURSIVE Walk(_, _, _, _)
Walk(run, src, tree, order) ==
    IF order = <<>> THEN run
    ELSE LET p == Head(order)
             status == tree[p]
             after ==
                 IF status = "denied"
                 THEN Run(run.artifacts,
                          Append(run.warnings, Warning("failed to inspect path", AbsText(p))),
                          run.next)
                 ELSE IF status \in FileLike THEN TryAddFile(run, src, p, TRUE, status)
                 ELSE run
         IN  Walk(after, src, tree, Tail(order))

\* a missing root raises instead of warning
CollectRootMissingRaises(src, tree, order, next, now) ==
    IF src.source_type # "filesystem" THEN Raised("ValueError")
    ELSE LET root == EntryOfUri(src.uri)
             status == tree[root]
         IN  IF status = "denied" THEN Raised("PermissionError")
             ELSE IF status \notin FileLike \cup {"dir", "sealed"} THEN Raised("FileNotFoundError")
             ELSE LET run == IF status \in FileLike
                             THEN TryAddFile(Run(<<>>, <<>>, next), src, root, FALSE, status)
                             ELSE Walk(Run(<<>>, <<>>, next), src, tree, order)
                  IN  Returned(Manifest(run.next, src, UtcDateTime(now),
                                        SortArtifacts(run.artifacts), run.warnings))

\* a source of another type gives an empty manifest with a warning
CollectUnknownTypeWarns(src, tree, order, next, now) ==
    IF src.source_type # "filesystem"
    THEN Returned(Manifest(next, src, UtcDateTime(now), <<>>,
                           <<Warning("unsupported source_type", src.uri)>>))
    ELSE LET root == EntryOfUri(src.uri)
             status == tree[root]
         IN  IF status = "denied" THEN Raised("PermissionError")
             ELSE LET run ==
                          IF status \in FileLike
                          THEN TryAddFile(Run(<<>>, <<>>, next), src, root, FALSE, status)
                          ELSE IF status \in {"dir", "sealed"}
                          THEN Walk(Run(<<>>, <<>>, next), src, tree, order)
                          ELSE Run(<<>>,
                                   <<Warning("source uri does not exist or is not accessible",
                                             AbsText(root))>>,
                                   next)
                  IN  Returned(Manifest(run.next, src, UtcDateTime(now),
                                        SortArtifacts(run.artifacts), run.warnings))

\* collect(source) with the walk meeting the entries in the given order
Collect(src, tree, order, next, now) ==
    IF src.source_type # "filesystem" THEN Raised("ValueError")
    ELSE LET root == EntryOfUri(src.uri)
             status == tree[root]
         IN  IF status = "denied" THEN Raised("PermissionError")
             ELSE LET run ==
                          IF status \in FileLike
                          THEN TryAddFile(Run(<<>>, <<>>, next), src, root, FALSE, status)
                          ELSE IF status \in {"dir", "sealed"}
                          THEN Walk(Run(<<>>, <<>>, next), src, tree, order)
                          ELSE Run(<<>>,
                                   <<Warning("source uri does not exist or is not accessible",
                                             AbsText(root))>>,
                                   next)
                  IN  Returned(Manifest(run.next, src, UtcDateTime(now),
                                        SortArtifacts(run.artifacts), run.warnings))

---------------------------------------------------------------------------
(* collect_source (orchestrator.py) *)

\* FilesystemCollector(**kwargs): the class is a dataclass without fields, so
\* the generated __init__ takes no argument
FilesystemCollectorInit(kwargs) ==
    IF kwargs = {} THEN Returned("FilesystemCollector") ELSE Raised("TypeError")

\* collect_source(source, compute_hash=compute_hash)
CollectSource(src, compute_hash, tree, order, next, now) ==
    IF src.source_type = "filesystem"
    THEN LET collector == FilesystemCollectorInit({<<"compute_hash", compute_hash>>})
         IN  IF collector.error # "none" THEN Raised(collector.error)
             ELSE Collect(src, tree, order, next, now)
    ELSE Raised("ValueError")

---------------------------------------------------------------------------
(* Calls of collect and collect_source on a tree *)

\* utc_now() during the run
NOW == 20

FileStatuses == {"absent", "file", "nostat", "noread", "denied", "gone"}

Tree(root, a, b, sub, c) ==
    [e \in Entries \cup {ENTRY_ROOT} |->
        IF e = ENTRY_ROOT THEN root
        ELSE IF e = ENTRY_A THEN a
        ELSE IF e = ENTRY_B THEN b
        ELSE IF e = ENTRY_SUB THEN sub
        ELSE c]

\* "/r" with a.txt, b.bin and sub/c.txt in every condition, or no "/r" at all
Trees ==
    {Tree("dir", a, b, "dir", c) : a \in FileStatuses, b \in {"absent", "file"}, c \in FileStatuses}
    \cup {Tree("dir", a, b, "absent", "absent") : a \in FileStatuses, b \in {"absent", "file"}}
    \cup {Tree("dir", a, "file", "sealed", "file") : a \in FileStatuses}
    \cup {Tree("dir", a, "denied", "dir", "file") : a \in FileStatuses}
    \cup {Tree("absent", "absent", "absent", "absent", "absent")}

CollectSpecs ==
    {DataSourceSpec(uri, "filesystem", inc, exc, ch, rec, {}) :
        uri \in {ROOT, ROOT_FILE},
        inc \in {None, Some(<<>>), Some(<<PAT_TXT>>), Some(<<PAT_BIN, PAT_DEEP_TXT>>)},
        exc \in {None, Some(<<>>), Some(<<PAT_SUB>>), Some(<<PAT_DEEP_BIN>>)},
        ch \in BOOLEAN, rec \in BOOLEAN}
    \cup {DataSourceSpec(ROOT, "unknown", None, None, TRUE, TRUE, {})}

DiffIdle == stored = <<>> /\ m1 = None /\ m2 = None /\ diffOut = None /\ dpc = "idle"
SerIdle == obj = None /\ doc = None /\ loaded = None /\ spc = "idle"
ColIdle ==
    /\ fs = Tree("absent", "absent", "absent", "absent", "absent")
    /\ srcSpec = None /\ listing = <<>> /\ outcome = None /\ uuids = 0 /\ cpc = "idle"
    /\ kwarg = None /\ earlier = None /\ built = None
StoreIdle == base_dir = <<>> /\ calls = <<>>

CollectInit ==
    /\ fs \in Trees
    /\ srcSpec \in {Some(s) : s \in CollectSpecs}
    /\ listing = <<>>
    /\ outcome = None
    /\ uuids = 0
    /\ cpc = "ready"
    /\ kwarg = None
    /\ earlier = None
    /\ built = None
    /\ DiffIdle
    /\ SerIdle
    /\ StoreIdle

\* the orders the directory walk of this call can take
WalkOrders(src, tree) ==
    IF src.source_type = "filesystem" /\ tree[EntryOfUri(src.uri)] = "dir"
    THEN Listings(tree, src.recursive)
    ELSE {<<>>}

\* a call can be made on a fresh spec, and once more after the first call
Callable == cpc = "ready" \/ (cpc = "done" /\ IsNone(earlier))

\* the call that is about to become the earlier one
Remember ==
    IF cpc = "done"
    THEN Some([outcome |-> Get(outcome), listing |-> listing, kwarg |-> kwarg])
    ELSE earlier

\* utc_now() of the call about to be made: the second call is later
Clock == IF cpc = "done" THEN NOW + 1 ELSE NOW

\* FilesystemCollector().collect(source)
CollectCall ==
    /\ Callable
    /\ \E order \in WalkOrders(Get(srcSpec), fs) :
          LET result == Collect(Get(srcSpec), fs, order, uuids, Clock)
          IN  /\ outcome' = Some(result)
              /\ listing' = order
              /\ uuids' = IF result.error = "none"
                          THEN uuids + Len(result.value.artifacts) + 1
                          ELSE uuids
    /\ kwarg' = None
    /\ earlier' = Remember
    /\ cpc' = "done"
    /\ UNCHANGED <<fs, srcSpec, built, diffVars, serVars, storeVars>>

\* collect_source(source) and collect_source(source, compute_hash=...)
CollectSourceCall ==
    /\ Callable
    /\ \E compute_hash \in BOOLEAN, order \in WalkOrders(Get(srcSpec), fs) :
          LET result == CollectSource(Get(srcSpec), compute_hash, fs, order, uuids, Clock)
          IN  /\ outcome' = Some(result)
              /\ listing' = IF result.error = "none" THEN order ELSE <<>>
              /\ uuids' = IF result.error = "none"
                          THEN uuids + Len(result.value.artifacts) + 1
                          ELSE uuids
              /\ kwarg' = Some(compute_hash)
    /\ earlier' = Remember
    /\ cpc' = "done"
    /\ UNCHANGED <<fs, srcSpec, built, diffVars, serVars, storeVars>>

CollectNext == CollectCall \/ CollectSourceCall

SpecCollect == CollectInit /\ [][CollectNext]_vars

---------------------------------------------------------------------------
(* Properties of collect *)

ColDone == cpc = "done" /\ IsNone(kwarg)
ColReturned == ColDone /\ Get(outcome).error = "none"
Src == Get(srcSpec)
Man == Get(outcome).value
RootEntry == EntryOfUri(Src.uri)

\* the call walks a directory / reads a single file
WalkRun == Src.source_type = "filesystem" /\ fs[RootEntry] = "dir"
FileRun == Src.source_type = "filesystem" /\ fs[RootEntry] \in FileLike

\* an entry the traversal policy reaches: every directory above it can be
\* listed, and it is an immediate child unless the walk is recursive
Reachable(e) ==
    /\ fs[e] # "absent"
    /\ \A k \in 1..(Len(e) - 1) : fs[SubSeq(e, 1, k)] = "dir"
    /\ Src.recursive \/ Len(e) = 1

InScope ==
    IF WalkRun THEN {e \in Entries : Reachable(e)}
    ELSE IF FileRun THEN {RootEntry}
    ELSE {}

RegularFiles == {e \in InScope : fs[e] \in FileLike}

ExcludedByGlobs(e) ==
    /\ ~IsNone(Src.exclude_globs)
    /\ \E i \in DOMAIN Get(Src.exclude_globs) : PathMatch(AbsParts(e), Get(Src.exclude_globs)[i])

IncludedByGlobs(e) ==
    \/ IsNone(Src.include_globs)
    \/ Get(Src.include_globs) = <<>>
    \/ \E i \in DOMAIN Get(Src.include_globs) : PathMatch(AbsParts(e), Get(Src.include_globs)[i])

ArtifactsFor(e) == {i \in DOMAIN Man.artifacts : Man.artifacts[i].absolute_path = Some(AbsText(e))}
WarningsFor(e, what) == {i \in DOMAIN Man.warnings : Man.warnings[i] = Warning(what, AbsText(e))}
WarningsNaming(e) == {i \in DOMAIN Man.warnings : Man.warnings[i].path = AbsText(e)}

\* the file got past the filter: it is in the manifest, or its stat() was tried
PastFilter(e) ==
    IF fs[e] = "nostat" THEN WarningsFor(e, "stat failed") # {} ELSE ArtifactsFor(e) # {}

\* C6: a file matching an exclude pattern is never in the manifest, even when
\* it matches an include pattern; a file matching no exclude pattern is kept
\* iff the include list is absent or empty or one of its patterns matches.
C6_FilterRule ==
    ColReturned =>
        \A e \in RegularFiles :
            /\ ExcludedByGlobs(e) => (ArtifactsFor(e) = {} /\ WarningsNaming(e) = {})
            /\ ~ExcludedByGlobs(e) => (PastFilter(e) <=> IncludedByGlobs(e))

\* a file that matches an include and an exclude pattern is left out, while
\* another one is kept
C6_Witness ==
    /\ ColReturned
    /\ ~IsNone(Src.include_globs) /\ Get(Src.include_globs) # <<>>
    /\ \E e \in RegularFiles :
          ExcludedByGlobs(e) /\ IncludedByGlobs(e) /\ ArtifactsFor(e) = {}
    /\ \E e \in RegularFiles : ~ExcludedByGlobs(e) /\ ArtifactsFor(e) # {}

\* the regular files in scope that the glob rules keep and whose stat() works
Counted ==
    {e \in RegularFiles : ~ExcludedByGlobs(e) /\ IncludedByGlobs(e) /\ fs[e] # "nostat"}

\* C7: the manifest has as many artifacts as there are regular files reachable
\* under the traversal policy, less those the glob rules reject, less those
\* whose metadata lookup failed; each counted file has exactly one artifact.
C7_ArtifactCount ==
    ColReturned =>
        /\ Len(Man.artifacts) = Cardinality(Counted)
        /\ \A e \in Counted : Cardinality(ArtifactsFor(e)) = 1

\* a recursive walk that counts a nested file, rejects one by a glob and
\* loses one to a failed stat()
C7_Witness ==
    /\ ColReturned /\ WalkRun
    /\ ENTRY_C \in Counted
    /\ \E e \in RegularFiles : ExcludedByGlobs(e) \/ ~IncludedByGlobs(e)
    /\ \E e \in RegularFiles : fs[e] = "nostat" /\ PastFilter(e)
    /\ Len(Man.artifacts) = 1

\* C8: a failed stat() of a filtered-in file leaves a warning and no artifact;
\* a failed hash read leaves a warning and the artifact, with size and mtime
\* and no content_hash; collect returns and the other files are recorded.
C8_FailureAsymmetry ==
    (ColDone /\ (WalkRun \/ FileRun)) =>
        /\ Get(outcome).error = "none"
        /\ \A e \in RegularFiles :
              (~ExcludedByGlobs(e) /\ IncludedByGlobs(e)) =>
                  CASE fs[e] = "nostat" ->
                         /\ Cardinality(WarningsFor(e, "stat failed")) = 1
                         /\ ArtifactsFor(e) = {}
                    [] fs[e] = "noread" /\ Src.compute_hash ->
                         /\ Cardinality(WarningsFor(e, "hash failed")) = 1
                         /\ \E i \in ArtifactsFor(e) :
                               /\ Man.artifacts[i].size_bytes = SizeOf(e)
                               /\ Man.artifacts[i].mtime = Some(UtcDateTime(MtimeOf(e)))
                               /\ IsNone(Man.artifacts[i].content_hash)
                    [] OTHER ->
                         /\ WarningsNaming(e) = {}
                         /\ \E i \in ArtifactsFor(e) :
                               IsNone(Man.artifacts[i].content_hash) <=> ~Src.compute_hash

\* one file fails stat(), one fails the hash read, one is read: two warnings,
\* two artifacts
C8_Witness ==
    /\ ColReturned /\ WalkRun /\ Src.compute_hash
    /\ \E e \in RegularFiles : fs[e] = "nostat" /\ WarningsFor(e, "stat failed") # {}
    /\ \E e \in RegularFiles : fs[e] = "noread" /\ ArtifactsFor(e) # {}
    /\ \E e \in RegularFiles : fs[e] = "file" /\ ArtifactsFor(e) # {}
    /\ Len(Man.warnings) = 2 /\ Len(Man.artifacts) = 2

\* what the loop does with the files around a skipped entry
OthersProcessed ==
    \A e \in RegularFiles :
        (~ExcludedByGlobs(e) /\ IncludedByGlobs(e)) => PastFilter(e)

\* C9 as stated: an inaccessible entry (permission error, deleted mid-walk)
\* never aborts collect; a warning is recorded for it, it is skipped, the
\* remaining entries are processed and a manifest is returned.
C9_InaccessibleEntryWarned ==
    (ColDone /\ WalkRun) =>
        /\ Get(outcome).error = "none"
        /\ \A e \in InScope :
              fs[e] \in {"denied", "gone"} =>
                  (WarningsNaming(e) # {} /\ ArtifactsFor(e) = {})
        /\ OthersProcessed

\* C9 amended: an entry whose inspection raises gets one warning and no
\* artifact; an entry is_file() reports as not a regular file (a directory, a
\* path that no longer exists) is skipped without a warning; in both cases the
\* remaining entries are processed and a manifest is returned.
C9_EntryErrorsContinue ==
    (ColDone /\ WalkRun) =>
        /\ Get(outcome).error = "none"
        /\ \A e \in InScope :
              /\ fs[e] = "denied" =>
                    /\ Cardinality(WarningsFor(e, "failed to inspect path")) = 1
                    /\ ArtifactsFor(e) = {}
              /\ fs[e] \in {"gone", "dir", "sealed"} =>
                    (WarningsNaming(e) = {} /\ ArtifactsFor(e) = {})
        /\ OthersProcessed

\* the walk meets an entry it cannot inspect before a regular file, and a
\* vanished entry as well: one warning, and the file is in the manifest
C9_Witness ==
    /\ ColReturned /\ WalkRun
    /\ \E i, j \in DOMAIN listing :
          /\ i < j
          /\ fs[listing[i]] = "denied"
          /\ fs[listing[j]] = "file"
          /\ ArtifactsFor(listing[j]) # {}
    /\ \E e \in InScope : fs[e] = "gone"
    /\ Len(Man.warnings) = 1

\* the root is neither an existing regular file nor a directory
RootMissing == Src.source_type = "filesystem" /\ fs[RootEntry] \in {"absent", "gone"}

\* C10: with a root that is neither an existing file nor a directory collect
\* returns a manifest with no artifacts and a warning about the root.
C10_MissingRootWarns ==
    (ColDone /\ RootMissing) =>
        /\ Get(outcome).error = "none"
        /\ Man.artifacts = <<>>
        /\ \E i \in DOMAIN Man.warnings :
              Man.warnings[i] =
                  Warning("source uri does not exist or is not accessible", AbsText(RootEntry))

\* a call on a root that does not exist has returned
C10_Witness ==
    /\ ColReturned /\ RootMissing
    /\ Src.uri = ROOT
    /\ Len(Man.warnings) = 1

\* a call of either entry point has finished
CallDone == cpc = "done"

\* the latest call went through collect_source
SourceDone == cpc = "done" /\ ~IsNone(kwarg)

\* C11: with a source_type other than "filesystem" both collect and
\* collect_source raise ValueError: no manifest is returned, and no partial
\* result carrying warnings.
C11_UnknownTypeRaises ==
    (CallDone /\ Src.source_type # "filesystem") =>
        /\ Get(outcome) = Raised("ValueError")
        /\ ~IsNone(earlier) => Get(earlier).outcome = Raised("ValueError")

\* the same unknown spec went through collect and then through collect_source
C11_Witness ==
    /\ SourceDone
    /\ Src.source_type = "unknown"
    /\ ~IsNone(earlier) /\ IsNone(Get(earlier).kwarg)
    /\ Get(earlier).outcome.error = "ValueError"
    /\ Get(outcome).error = "ValueError"

\* C12: collect_source on a filesystem spec returns a manifest, without a
\* content_hash on any artifact when spec.compute_hash is false, and with one
\* on every artifact whose file was read when spec.compute_hash is true,
\* whatever its own compute_hash keyword is.
C12_CollectSourceHashing ==
    (SourceDone /\ Src.source_type = "filesystem" /\ fs[RootEntry] # "denied") =>
        /\ Get(outcome).error = "none"
        /\ ~Src.compute_hash =>
              \A i \in DOMAIN Man.artifacts : IsNone(Man.artifacts[i].content_hash)
        /\ Src.compute_hash =>
              \A e \in RegularFiles :
                  fs[e] = "file" =>
                      \A i \in ArtifactsFor(e) : ~IsNone(Man.artifacts[i].content_hash)

\* the regular files below the root, at any depth, that the glob rules keep
KeptByGlobs == {e \in Entries : fs[e] \in FileLike /\ ~ExcludedByGlobs(e) /\ IncludedByGlobs(e)}

\* every artifact of a non-recursive walk is a regular file directly in the root
OnlyImmediateChildren ==
    \A i \in DOMAIN Man.artifacts :
        \E e \in Entries :
            /\ Len(e) = 1
            /\ fs[e] \in FileLike
            /\ Man.artifacts[i].absolute_path = Some(AbsText(e))

\* C13 as stated: with recursive=false the artifacts are regular files that are
\* immediate children of the root; with recursive=true every regular file
\* below the root that passes the filter has an artifact.
C13_RecursiveRule ==
    (ColReturned /\ WalkRun) =>
        /\ ~Src.recursive => OnlyImmediateChildren
        /\ Src.recursive => \A e \in KeptByGlobs : ArtifactsFor(e) # {}

\* C13 amended: with recursive=false the artifacts are regular files that are
\* immediate children of the root; with recursive=true a regular file below
\* the root that passes the filter has one artifact when every directory above
\* it can be listed and its stat() succeeds, and none otherwise: a file in a
\* directory that cannot be listed is left out without a warning.
C13_RecursiveRuleReadable ==
    (ColReturned /\ WalkRun) =>
        /\ ~Src.recursive => OnlyImmediateChildren
        /\ Src.recursive =>
              \A e \in KeptByGlobs :
                  IF Reachable(e) /\ fs[e] # "nostat"
                  THEN Cardinality(ArtifactsFor(e)) = 1
                  ELSE /\ ArtifactsFor(e) = {}
                       /\ ~Reachable(e) => WarningsNaming(e) = {}

\* a non-recursive walk of a root whose only file is nested: no artifact
C13_Witness ==
    /\ ColReturned /\ WalkRun
    /\ ~Src.recursive
    /\ fs[ENTRY_SUB] = "dir" /\ fs[ENTRY_C] = "file"
    /\ ENTRY_C \in KeptByGlobs
    /\ \A e \in Entries : Len(e) = 1 => fs[e] \notin FileLike
    /\ Man.artifacts = <<>>

\* C14: the artifacts of a returned manifest are in ascending order of
\* relative_path, a missing relative_path counting as "", whatever order the
\* walk met the entries in.
C14_SortedByPath ==
    ColReturned => IsSortedByPath(Man.artifacts)

\* the walk met two kept files in descending order of their paths
C14_Witness ==
    /\ ColReturned /\ WalkRun
    /\ Len(Man.artifacts) >= 2
    /\ \E i, j \in DOMAIN listing :
          /\ i < j
          /\ ArtifactsFor(listing[i]) # {} /\ ArtifactsFor(listing[j]) # {}
          /\ StrLess(JoinParts(listing[j]), JoinParts(listing[i]))

\* collect ran twice on the same tree with the same spec
BothCollected ==
    cpc = "done" /\ IsNone(kwarg) /\ ~IsNone(earlier) /\ IsNone(Get(earlier).kwarg)
First == Get(earlier).outcome
Second == Get(outcome)

\* how often a warning occurs in a list
Occurrences(w, ws) == Cardinality({i \in DOMAIN ws : ws[i] = w})

\* C15 as stated: two collections of the same tree with the same spec agree on
\* everything but manifest_id and created_at: same source, same artifacts
\* element by element (identifiers included), same warnings.
C15_Deterministic ==
    (BothCollected /\ First.error = "none" /\ Second.error = "none") =>
        /\ Second.value.source = First.value.source
        /\ Second.value.artifacts = First.value.artifacts
        /\ Second.value.warnings = First.value.warnings

\* C15 amended: the two collections fail alike or return manifests with the
\* same source, with artifact lists equal element by element in every field
\* but artifact_id, which is fresh in each run, and with the same warnings,
\* in the same order when the walk met the entries in the same order.
C15_DeterministicButIdentifiers ==
    BothCollected =>
        /\ Second.error = First.error
        /\ First.error = "none" =>
              LET a1 == First.value.artifacts
                  a2 == Second.value.artifacts
                  w1 == First.value.warnings
                  w2 == Second.value.warnings
              IN  /\ Second.value.source = First.value.source
                  /\ Second.value.manifest_id # First.value.manifest_id
                  /\ Len(a2) = Len(a1)
                  /\ \A i \in DOMAIN a1 :
                        /\ a2[i].artifact_id # a1[i].artifact_id
                        /\ [a2[i] EXCEPT !.artifact_id = a1[i].artifact_id] = a1[i]
                  /\ \A w \in Range(w1) \cup Range(w2) : Occurrences(w, w1) = Occurrences(w, w2)
                  /\ listing = Get(earlier).listing => w2 = w1

\* two runs that hashed a file and met two failing entries in different orders
C15_Witness ==
    /\ BothCollected
    /\ First.error = "none" /\ Second.error = "none"
    /\ \E i \in DOMAIN Second.value.artifacts :
          ~IsNone(Second.value.artifacts[i].content_hash)
    /\ Len(First.value.warnings) = 2
    /\ Second.value.warnings # First.value.warnings

---------------------------------------------------------------------------
(* Building a DataSourceSpec, then collecting it *)

\* the arguments a caller passes to DataSourceSpec(...)
BuildSpecs ==
    {DataSourceSpec(uri, source_type, inc, exc, ch, rec, {}) :
        uri \in {ROOT, ROOT_FILE},
        source_type \in {"filesystem", "unknown"},
        inc \in {None, Some(<<PAT_TXT>>)},
        exc \in {None, Some(<<PAT_SUB>>)},
        ch \in BOOLEAN, rec \in BOOLEAN}

\* the documents a caller passes to DataSourceSpec.from_dict: what to_dict
\* wrote, and documents with only a uri or only a source_type
BuildDocs ==
    {SpecToDict(spec) : spec \in BuildSpecs}
    \cup {[uri |-> ROOT], [source_type |-> "filesystem"], [source_type |-> "unknown"]}

\* how a spec came to be: by which call, with which source_type (optional),
\* and what the call returned or raised
Built(by, given, result) == [by |-> by, given |-> given, result |-> result]

BuildInit ==
    /\ fs = Tree("dir", "file", "file", "dir", "file")
    /\ srcSpec = None
    /\ listing = <<>>
    /\ outcome = None
    /\ uuids = 0
    /\ cpc = "new"
    /\ kwarg = None
    /\ earlier = None
    /\ built = None
    /\ DiffIdle
    /\ SerIdle
    /\ StoreIdle

\* DataSourceSpec(uri=..., source_type=..., ...): the generated __init__
\* assigns the fields as given
Construct ==
    /\ cpc = "new"
    /\ \E spec \in BuildSpecs :
          /\ srcSpec' = Some(spec)
          /\ built' = Some(Built("constructor", Some(spec.source_type), Returned(spec)))
    /\ cpc' = "ready"
    /\ UNCHANGED <<fs, listing, outcome, uuids, kwarg, earlier, diffVars, serVars, storeVars>>

\* DataSourceSpec.from_dict(d)
ParseSpec ==
    /\ cpc = "new"
    /\ \E d \in BuildDocs :
          LET result == SpecFromDict(d)
          IN  /\ built' = Some(Built("from_dict",
                                    IF "source_type" \in DOMAIN d THEN Some(d.source_type)
                                    ELSE None,
                                    result))
              /\ srcSpec' = IF result.error = "none" THEN Some(result.value) ELSE None
              /\ cpc' = IF result.error = "none" THEN "ready" ELSE "rejected"
    /\ UNCHANGED <<fs, listing, outcome, uuids, kwarg, earlier, diffVars, serVars, storeVars>>

BuildNext == Construct \/ ParseSpec \/ CollectCall \/ CollectSourceCall

SpecBuild == BuildInit /\ [][BuildNext]_vars

\* C18 as stated: no construction of a DataSourceSpec with a source_type
\* other than "filesystem" succeeds.
C18_NoUnrecognizedSpec ==
    (~IsNone(built) /\ Get(built).result.error = "none") =>
        Get(built).result.value.source_type = "filesystem"

\* C18 amended: from_dict raises ValueError for a source_type other than
\* "filesystem" and otherwise returns a "filesystem" spec; the constructor
\* returns a spec with the source_type it was given, whatever it is; a spec
\* with another source_type is rejected with ValueError when it is collected.
C18_UnrecognizedRejectedLate ==
    ~IsNone(built) =>
        LET b == Get(built)
        IN  /\ b.by = "from_dict" =>
                  /\ (~IsNone(b.given) /\ Get(b.given) # "filesystem") =>
                        b.result = Raised("ValueError")
                  /\ b.result.error = "none" => b.result.value.source_type = "filesystem"
            /\ b.by = "constructor" =>
                  /\ b.result.error = "none"
                  /\ b.result.value.source_type = Get(b.given)
            /\ (CallDone /\ Src.source_type # "filesystem") =>
                  Get(outcome) = Raised("ValueError")

\* the constructor returned a spec with source_type "unknown", and collecting
\* it raised ValueError
C18_Witness ==
    /\ ~IsNone(built)
    /\ Get(built).by = "constructor"
    /\ Get(built).result.error = "none"
    /\ Get(built).result.value.source_type = "unknown"
    /\ CallDone
    /\ Get(outcome).error = "ValueError"

---------------------------------------------------------------------------
(* Saving and loading a manifest: to_dict, then from_dict on the document *)

\* the specs a caller builds for the filesystem collector
SerSpecs ==
    {DataSourceSpec(ROOT, "filesystem", inc, exc, ch, rec, hints) :
        inc \in {None, Some(<<>>), Some(<<PAT_TXT>>)},
        exc \in {None, Some(<<PAT_TXT>>)},
        ch \in BOOLEAN, rec \in BOOLEAN,
        hints \in {{}, {<<"follow_symlinks", TRUE>>}}}

SerArtifacts ==
    {Artifact(1, ROOT, Some(REL_A), Some(ROOT \o SLASH \o REL_A), 3,
              Some(UtcDateTime(1)), Some("h1"), Some("text/plain")),
     Artifact(2, ROOT, None, Some(ROOT), 0, Some(UtcDateTime(2)), None, None)}

SerManifests ==
    {Manifest(3, src, UtcDateTime(5), arts, warns) :
        src \in SerSpecs,
        arts \in UNION {[1..n -> SerArtifacts] : n \in 0..MaxArtifacts},
        warns \in {<<>>, <<Warning("stat failed", ROOT \o SLASH \o REL_B)>>}}

SerInit ==
    /\ obj \in {Some(m) : m \in SerManifests}
    /\ doc = None
    /\ loaded = None
    /\ spc = "ready"
    /\ DiffIdle
    /\ ColIdle
    /\ StoreIdle

\* manifest.to_dict()
ToDict ==
    /\ spc = "ready"
    /\ doc' = Some(ManifestToDict(Get(obj)))
    /\ spc' = "saved"
    /\ UNCHANGED <<obj, loaded, diffVars, colVars, storeVars>>

\* Manifest.from_dict(data)
FromDict ==
    /\ spc = "saved"
    /\ loaded' = Some(ManifestFromDict(Get(doc)))
    /\ spc' = "loaded"
    /\ UNCHANGED <<obj, doc, diffVars, colVars, storeVars>>

SerNext == ToDict \/ FromDict

SpecSer == SerInit /\ [][SerNext]_vars

\* C5: Manifest.from_dict(m.to_dict()) returns a manifest equal to m in every
\* field, the nested source spec and the artifacts included.
C5_RoundTrip ==
    spc = "loaded" =>
        /\ Get(loaded).error = "none"
        /\ Get(loaded).value = Get(obj)

\* what survives the round trip: everything but source.compute_hash, which is
\* TRUE after loading
C5_RoundTripButComputeHash ==
    spc = "loaded" =>
        /\ Get(loaded).error = "none"
        /\ Get(loaded).value = [Get(obj) EXCEPT !.source.compute_hash = TRUE]

---------------------------------------------------------------------------
(* FileManifestStore (storage/manifest_store.py) *)

\* the manifest ids of the model, as str(uuid4()) texts without a dot
ID_1 == <<"a", "a">>
ID_2 == <<"b", "b">>
ID_3 == <<"c", "c">>
StoreIds == {ID_1, ID_2, ID_3}

DOT_JSON == <<".", "j", "s", "o", "n">>
PAT_JSON == <<"*">> \o DOT_JSON

\* json.dump / json.load of a document of strings, numbers, lists and objects
JsonDump(d) == <<"json", d>>
JsonLoad(text) == text[2]

\* _path(manifest_id): the file name below base_dir
PathOf(manifest_id) == manifest_id \o DOT_JSON

\* Path.stem: the name without its last suffix
Stem(name) == SubSeq(name, 1, Len(name) - Len(Suffix(name)))

\* the outcome of a call on the store: the directory afterwards and the result
Effect(dir, result) == [dir |-> dir, result |-> result]

\* save(manifest)
Save(dir, manifest) ==
    Effect((PathOf(manifest.manifest_id) :> JsonDump(ManifestToDict(manifest))) @@ dir,
           Returned(None))

\* a missing manifest loads as nothing instead of raising
LoadMissingAsNone(dir, manifest_id) ==
    LET path == PathOf(manifest_id)
    IN  IF path \notin DOMAIN dir THEN Effect(dir, Returned(None))
        ELSE Effect(dir, ManifestFromDict(JsonLoad(dir[path])))

\* load(manifest_id)
Load(dir, manifest_id) ==
    LET path == PathOf(manifest_id)
    IN  IF path \notin DOMAIN dir THEN Effect(dir, Raised("FileNotFoundError"))
        ELSE Effect(dir, ManifestFromDict(JsonLoad(dir[path])))

\* list(): the stems of the files base_dir.glob("*.json") yields
List(dir) == {Stem(name) : name \in {n \in DOMAIN dir : FnMatch(n, PAT_JSON)}}

\* the file stays in place after a delete
DeleteKeepingFile(dir, manifest_id) ==
    LET path == PathOf(manifest_id)
    IN  IF path \notin DOMAIN dir THEN Effect(dir, Raised("FileNotFoundError"))
        ELSE Effect(dir, Returned(None))

\* delete(manifest_id)
Delete(dir, manifest_id) ==
    LET path == PathOf(manifest_id)
    IN  IF path \notin DOMAIN dir THEN Effect(dir, Raised("FileNotFoundError"))
        ELSE Effect([n \in DOMAIN dir \ {path} |-> dir[n]], Returned(None))

---------------------------------------------------------------------------
(* Calls on a store that starts empty *)

\* the longest sequence of calls on the store
MaxCalls == 4

StoreArtifact ==
    Artifact(ID_3, ROOT, Some(REL_A), Some(ROOT \o SLASH \o REL_A), 3,
             Some(UtcDateTime(1)), Some("h1"), Some("text/plain"))

\* what the caller saves: two manifests under one id, one under another
StoreManifests ==
    {Manifest(ID_1, DataSourceSpec(ROOT, "filesystem", None, None, TRUE, TRUE, {}),
              UtcDateTime(5), <<>>, <<>>),
     Manifest(ID_1, DataSourceSpec(ROOT, "filesystem", None, None, FALSE, TRUE, {}),
              UtcDateTime(6), <<StoreArtifact>>, <<>>),
     Manifest(ID_2, DataSourceSpec(ROOT, "filesystem", None, None, TRUE, FALSE, {}),
              UtcDateTime(7), <<StoreArtifact>>,
              <<Warning("stat failed", ROOT \o SLASH \o REL_B)>>)}

\* a finished call: what was called with what, the directory before it, and
\* what it returned or raised
Call(op, arg, before, result) == [op |-> op, arg |-> arg, before |-> before, result |-> result]

StoreInit ==
    /\ base_dir = <<>>
    /\ calls = <<>>
    /\ DiffIdle
    /\ SerIdle
    /\ ColIdle

StoreSave(manifest) ==
    /\ Len(calls) < MaxCalls
    /\ LET e == Save(base_dir, manifest)
       IN  /\ base_dir' = e.dir
           /\ calls' = Append(calls, Call("save", manifest, base_dir, e.result))
    /\ UNCHANGED <<diffVars, serVars, colVars>>

StoreLoad(manifest_id) ==
    /\ Len(calls) < MaxCalls
    /\ LET e == Load(base_dir, manifest_id)
       IN  /\ base_dir' = e.dir
           /\ calls' = Append(calls, Call("load", manifest_id, base_dir, e.result))
    /\ UNCHANGED <<diffVars, serVars, colVars>>

\* list(): glob yields the files in any order
StoreList ==
    /\ Len(calls) < MaxCalls
    /\ \E order \in OrdersOf(List(base_dir)) :
          calls' = Append(calls, Call("list", None, base_dir, Returned(order)))
    /\ UNCHANGED <<base_dir, diffVars, serVars, colVars>>

StoreDelete(manifest_id) ==
    /\ Len(calls) < MaxCalls
    /\ LET e == Delete(base_dir, manifest_id)
       IN  /\ base_dir' = e.dir
           /\ calls' = Append(calls, Call("delete", manifest_id, base_dir, e.result))
    /\ UNCHANGED <<diffVars, serVars, colVars>>

StoreNext ==
    \/ \E manifest \in StoreManifests : StoreSave(manifest)
    \/ \E manifest_id \in StoreIds : StoreLoad(manifest_id)
    \/ StoreList
    \/ \E manifest_id \in StoreIds : StoreDelete(manifest_id)

SpecStore == StoreInit /\ [][StoreNext]_vars

---------------------------------------------------------------------------
(* Properties of the store *)

\* the directory after the i-th call
DirAfter(i) == IF i = Len(calls) THEN base_dir ELSE calls[i + 1].before

\* what the first n calls leave stored: the manifest last saved under each id
\* that was not deleted afterwards
RECURSIVE Kept(_)
Kept(n) ==
    IF n = 0 THEN <<>>
    ELSE LET c == calls[n]
             old == Kept(n - 1)
         IN  IF c.op = "save" /\ c.result.error = "none"
             THEN (c.arg.manifest_id :> c.arg) @@ old
             ELSE IF c.op = "delete" /\ c.result.error = "none"
             THEN [id \in DOMAIN old \ {c.arg} |-> old[id]]
             ELSE old

\* C16: list() returns the ids saved and not deleted afterwards, each once;
\* load of such an id returns the deserialization of the document saved last
\* under it; saving a manifest that is the one stored under its id leaves the
\* store as it was.
C16_StoreState ==
    /\ List(base_dir) = DOMAIN Kept(Len(calls))
    /\ \A i \in DOMAIN calls :
          LET c == calls[i]
              kept == Kept(i - 1)
          IN  /\ c.op = "list" =>
                    /\ c.result.error = "none"
                    /\ Range(c.result.value) = DOMAIN kept
                    /\ Len(c.result.value) = Cardinality(DOMAIN kept)
              /\ (c.op = "load" /\ c.arg \in DOMAIN kept) =>
                    c.result = ManifestFromDict(ManifestToDict(kept[c.arg]))
              /\ c.op = "save" =>
                    /\ c.result.error = "none"
                    /\ (c.arg.manifest_id \in DOMAIN kept /\ kept[c.arg.manifest_id] = c.arg) =>
                          DirAfter(i) = c.before

\* an id saved twice with different content and another id saved once, then
\* list() returns both ids
C16_Witness ==
    /\ Len(calls) = 4
    /\ calls[1].op = "save" /\ calls[2].op = "save" /\ calls[3].op = "save"
    /\ calls[1].arg.manifest_id = calls[2].arg.manifest_id
    /\ calls[1].arg # calls[2].arg
    /\ calls[3].arg.manifest_id # calls[1].arg.manifest_id
    /\ calls[4].op = "list"
    /\ Len(calls[4].result.value) = 2

\* C17: load and delete of an id that is not stored raise FileNotFoundError
\* and leave the directory as it was.
C17_NotFound ==
    \A i \in DOMAIN calls :
        LET c == calls[i]
        IN  (c.op \in {"load", "delete"} /\ c.arg \notin DOMAIN Kept(i - 1)) =>
                /\ c.result = Raised("FileNotFoundError")
                /\ DirAfter(i) = c.before

\* a manifest is saved and deleted; a second delete and a load of it fail
C17_Witness ==
    /\ Len(calls) = 4
    /\ calls[1].op = "save"
    /\ calls[2].op = "delete" /\ calls[2].arg = calls[1].arg.manifest_id
    /\ calls[2].result.error = "none"
    /\ calls[3].op = "delete" /\ calls[3].arg = calls[2].arg
    /\ calls[3].result.error = "FileNotFoundError"
    /\ calls[4].op = "load" /\ calls[4].arg = calls[2].arg
    /\ calls[4].result.error = "FileNotFoundError"

---------------------------------------------------------------------------
(* diff (interfaces/cli.py) *)

\* bool(x) of an optional string: None and "" are falsy
Truthy(o) == ~IsNone(o) /\ Get(o) # ""

\* the index without its filter: an artifact without a path is keyed by ""
IndexByPathUnfiltered(artifacts) ==
    LET keys == {IF IsNone(a.relative_path) THEN <<>> ELSE Get(a.relative_path) :
                    a \in Range(artifacts)}
        key(i) == IF IsNone(artifacts[i].relative_path) THEN <<>>
                  ELSE Get(artifacts[i].relative_path)
        last(k) == CHOOSE i \in DOMAIN artifacts :
                      key(i) = k /\ \A j \in DOMAIN artifacts : key(j) = k => j <= i
    IN  [k \in keys |-> artifacts[last(k)]]

\* {a.relative_path: a for a in artifacts if a.relative_path is not None}:
\* a later artifact replaces an earlier one under the same key
IndexByPath(artifacts) ==
    LET keys == {Get(artifacts[i].relative_path) :
                    i \in {j \in DOMAIN artifacts : ~IsNone(artifacts[j].relative_path)}}
        last(k) == CHOOSE i \in DOMAIN artifacts :
                      /\ artifacts[i].relative_path = Some(k)
                      /\ \A j \in DOMAIN artifacts :
                            artifacts[j].relative_path = Some(k) => j <= i
    IN  [k \in keys |-> artifacts[last(k)]]

\* a hash on one side only counts as a difference
DiffersForcedMismatch(art1, art2) ==
    IF Truthy(art1.content_hash) /\ Truthy(art2.content_hash)
    THEN art1.content_hash # art2.content_hash
    ELSE \/ art1.content_hash # art2.content_hash
         \/ art1.size_bytes # art2.size_bytes
         \/ art1.mtime # art2.mtime

\* a pair without two hashes always counts as a difference
DiffersWithoutHashes(art1, art2) ==
    IF Truthy(art1.content_hash) /\ Truthy(art2.content_hash)
    THEN art1.content_hash # art2.content_hash
    ELSE TRUE

\* the body of the loop over the common paths: TRUE when path is appended
Differs(art1, art2) ==
    IF Truthy(art1.content_hash) /\ Truthy(art2.content_hash)
    THEN art1.content_hash # art2.content_hash
    ELSE art1.size_bytes # art2.size_bytes \/ art1.mtime # art2.mtime

\* added lists every path of the second manifest
DiffManifestsAddedUnfiltered(x, y) ==
    LET a1 == IndexByPath(x.artifacts)
        a2 == IndexByPath(y.artifacts)
        paths1 == DOMAIN a1
        paths2 == DOMAIN a2
        changed(p) == Differs(a1[p], a2[p])
    IN  [added |-> Sorted(paths2),
         removed |-> Sorted(paths1 \ paths2),
         modified |-> SelectSeq(Sorted(paths1 \cap paths2), changed)]

\* added and removed exchanged
DiffManifestsSwapped(x, y) ==
    LET a1 == IndexByPath(x.artifacts)
        a2 == IndexByPath(y.artifacts)
        paths1 == DOMAIN a1
        paths2 == DOMAIN a2
        changed(p) == Differs(a1[p], a2[p])
    IN  [added |-> Sorted(paths1 \ paths2),
         removed |-> Sorted(paths2 \ paths1),
         modified |-> SelectSeq(Sorted(paths1 \cap paths2), changed)]

\* lines 275-300 of diff
DiffManifests(x, y) ==
    LET a1 == IndexByPath(x.artifacts)
        a2 == IndexByPath(y.artifacts)
        paths1 == DOMAIN a1
        paths2 == DOMAIN a2
        changed(p) == Differs(a1[p], a2[p])
    IN  [added |-> Sorted(paths2 \ paths1),
         removed |-> Sorted(paths1 \ paths2),
         modified |-> SelectSeq(Sorted(paths1 \cap paths2), changed)]

---------------------------------------------------------------------------
(* The diff command: two stored manifests are loaded and compared *)

DiffArt(rel, size, mtime, hash) ==
    Artifact(0, ROOT, rel, None, size, Some(UtcDateTime(mtime)), hash, None)

\* The comparison only tests fields for equality, so the first stored manifest
\* keeps size 1 and mtime 1, and the second one ranges over every combination
\* of hash and metadata on one path and over the hashes on the other.
DiffArtifactsA ==
    {DiffArt(Some(REL_A), 1, 1, hash) : hash \in {None, Some("h1")}}
    \cup {DiffArt(Some(REL_C), 1, 1, Some("h1")), DiffArt(None, 1, 1, Some("h1"))}

DiffArtifactsB ==
    {DiffArt(Some(REL_A), meta[1], meta[2], hash) :
        meta \in {<<1, 1>>, <<2, 1>>, <<1, 2>>}, hash \in {None, Some("h1"), Some("h2")}}
    \cup {DiffArt(Some(REL_C), 1, 1, hash) : hash \in {None, Some("h1"), Some("h2")}}
    \cup {DiffArt(None, 1, 1, Some("h1")), DiffArt(None, 2, 2, Some("h2"))}

\* the artifact lists a collection can return: sorted by SortKey
ArtifactLists(A) ==
    {arts \in UNION {[1..n -> A] : n \in 0..MaxArtifacts} : IsSortedByPath(arts)}

ManifestOf(id, arts) ==
    Manifest(id, DataSourceSpec(ROOT, "filesystem", None, None, TRUE, TRUE, {}),
             UtcDateTime(0), arts, <<>>)

DiffInit ==
    /\ stored \in {<<ManifestOf(1, x), ManifestOf(2, y)>> :
                      x \in ArtifactLists(DiffArtifactsA),
                      y \in ArtifactLists(DiffArtifactsB)}
    /\ m1 = None
    /\ m2 = None
    /\ diffOut = None
    /\ dpc = "ready"
    /\ SerIdle
    /\ ColIdle
    /\ StoreIdle

\* diff(id1, id2): load both manifests, compare them
Diff(id1, id2) ==
    /\ dpc = "ready"
    /\ m1' = Some(stored[id1])
    /\ m2' = Some(stored[id2])
    /\ diffOut' = Some(DiffManifests(stored[id1], stored[id2]))
    /\ dpc' = "done"
    /\ UNCHANGED <<stored, serVars, colVars, storeVars>>

DiffNext == \E id1, id2 \in DOMAIN stored : Diff(id1, id2)

SpecDiff == DiffInit /\ [][DiffNext]_vars

---------------------------------------------------------------------------
(* Properties of diff *)

\* the relative paths a manifest's artifacts carry
PathsOf(m) == {Get(a.relative_path) : a \in {b \in Range(m.artifacts) : ~IsNone(b.relative_path)}}

\* the artifact the path mapping holds for p: the last one listed with that path
MappedAt(m, p) ==
    LET idx == {i \in DOMAIN m.artifacts : m.artifacts[i].relative_path = Some(p)}
    IN  m.artifacts[CHOOSE i \in idx : \A j \in idx : j <= i]

InList(x, s) == \E i \in DOMAIN s : s[i] = x

StrictlyAscending(s) == \A i \in 1..(Len(s) - 1) : StrLess(s[i], s[i + 1])

WithoutPathless(m) ==
    [m EXCEPT !.artifacts = SelectSeq(m.artifacts, LAMBDA a : ~IsNone(a.relative_path))]

DiffDone == dpc = "done"

\* C1: for a path in both mappings, with a hash present on both sides the path
\* is in modified iff the hashes differ; with a hash missing on either side it
\* is in modified iff size_bytes or mtime differs.
C1_ModifiedRule ==
    DiffDone =>
        \A p \in PathsOf(Get(m1)) \cap PathsOf(Get(m2)) :
            LET u == MappedAt(Get(m1), p)
                v == MappedAt(Get(m2), p)
                listed == InList(p, Get(diffOut).modified)
            IN  IF ~IsNone(u.content_hash) /\ ~IsNone(v.content_hash)
                THEN listed <=> (u.content_hash # v.content_hash)
                ELSE listed <=> (u.size_bytes # v.size_bytes \/ u.mtime # v.mtime)

\* a common path with a hash on one side only and equal metadata, not reported
C1_Witness ==
    /\ DiffDone
    /\ \E p \in PathsOf(Get(m1)) \cap PathsOf(Get(m2)) :
          LET u == MappedAt(Get(m1), p)
              v == MappedAt(Get(m2), p)
          IN  /\ IsNone(u.content_hash) # IsNone(v.content_hash)
              /\ u.size_bytes = v.size_bytes /\ u.mtime = v.mtime
              /\ ~InList(p, Get(diffOut).modified)

\* C2: added is exactly the paths of m2 not in m1, removed exactly the paths of
\* m1 not in m2, and each of the three lists is strictly ascending.
C2_AddedRemoved ==
    DiffDone =>
        LET r == Get(diffOut)
        IN  /\ Range(r.added) = PathsOf(Get(m2)) \ PathsOf(Get(m1))
            /\ Range(r.removed) = PathsOf(Get(m1)) \ PathsOf(Get(m2))
            /\ StrictlyAscending(r.added)
            /\ StrictlyAscending(r.removed)
            /\ StrictlyAscending(r.modified)

\* two paths added at once, in order
C2_Witness ==
    /\ DiffDone
    /\ Get(diffOut).added = <<REL_A, REL_C>>
    /\ Get(diffOut).removed = <<>>

\* C3: a manifest compared with itself gives three empty lists.
C3_SelfDiffEmpty ==
    (DiffDone /\ m1 = m2) =>
        Get(diffOut) = [added |-> <<>>, removed |-> <<>>, modified |-> <<>>]

\* a self comparison of a manifest holding a pathless artifact and an unhashed one
C3_Witness ==
    /\ DiffDone
    /\ m1 = m2
    /\ \E a \in Range(Get(m1).artifacts) : IsNone(a.relative_path)
    /\ \E a \in Range(Get(m1).artifacts) :
          ~IsNone(a.relative_path) /\ IsNone(a.content_hash)

\* C4: removing the artifacts without a relative_path from either manifest
\* leaves the result of the comparison unchanged.
C4_PathlessIgnored ==
    DiffDone =>
        /\ Get(diffOut) = DiffManifests(WithoutPathless(Get(m1)), Get(m2))
        /\ Get(diffOut) = DiffManifests(Get(m1), WithoutPathless(Get(m2)))
        /\ Get(diffOut) = DiffManifests(WithoutPathless(Get(m1)), WithoutPathless(Get(m2)))

\* both manifests hold a pathless artifact, with different hash, size and mtime
C4_Witness ==
    /\ DiffDone
    /\ \E a \in Range(Get(m1).artifacts), b \in Range(Get(m2).artifacts) :
          /\ IsNone(a.relative_path) /\ IsNone(b.relative_path)
          /\ a.content_hash # b.content_hash
          /\ a.size_bytes # b.size_bytes
          /\ a.mtime # b.mtime
    /\ Get(diffOut).modified = <<>>

\* C19: added, removed and modified are pairwise disjoint; a path in modified
\* is a relative path of both manifests, a path in added of the second one
\* only, a path in removed of the first one only.
C19_BucketsDisjoint ==
    DiffDone =>
        LET r == Get(diffOut)
            p1 == PathsOf(Get(m1))
            p2 == PathsOf(Get(m2))
        IN  /\ Range(r.added) \cap Range(r.removed) = {}
            /\ Range(r.added) \cap Range(r.modified) = {}
            /\ Range(r.removed) \cap Range(r.modified) = {}
            /\ Range(r.modified) \subseteq p1 \cap p2
            /\ Range(r.added) \subseteq p2 \ p1
            /\ Range(r.removed) \subseteq p1 \ p2

\* a comparison that reports one path as modified and another one as added
C19_Witness ==
    /\ DiffDone
    /\ Get(diffOut).modified = <<REL_A>>
    /\ Get(diffOut).added = <<REL_C>>
    /\ Get(diffOut).removed = <<>>

====
